---- MODULE Spec2Model ----
(***************************************************************************)
(* Model of src/program.c: a fixed-capacity memtable (LSMTree) guarded by  *)
(* one pthread read-write lock, with lsm_init / lsm_add / lsm_get /        *)
(* lsm_destroy, the writer_thread and reader_thread routines, and main.    *)
(*                                                                         *)
(* Every statement of lsm_add and lsm_get that reads or writes the shared  *)
(* table is one step, so that an entry under construction (key stored,     *)
(* value / in_use / memtable_count not yet) is a state of the model.       *)
(*                                                                         *)
(* The specifications share all the table's actions:                       *)
(*   SpecDemo  main as written: writer id adds keys id*100+i with value    *)
(*             key*10, readers get keys 100+i and 200+i;                   *)
(*   Spec      any driver: after lsm_init of any small capacity, writer    *)
(*             and reader threads calling lsm_add / lsm_get with any key;  *)
(*   SpecTwice as Spec, the writers making every call of lsm_add twice.    *)
(***************************************************************************)
EXTENDS Integers, Sequences, FiniteSets, TLC

(***************************************************************************)
(* Program constants and bounds                                            *)
(***************************************************************************)
\* main creates 2 writer threads and 2 reader threads
NumWriters == 2
NumReaders == 2
\* main's writer_ops / reader_ops (10 in the source), scaled down
writer_ops == 2
reader_ops == 1
\* Spec: keys 1..MaxKey, capacities 1..MaxCapacity, AnyReaders reader threads
MaxKey == 2
MaxCapacity == 2
AnyReaders == 1

Keys == 1..MaxKey
Capacities == 1..MaxCapacity

\* main's lsm_init(&lsm, 50) with 20 keys written: capacity above the number
\* of keys the writers add, scaled with writer_ops
DemoCapacity == NumWriters * writer_ops + 1

Writers == {<<"w", n>> : n \in 1..NumWriters}
Readers == {<<"r", n>> : n \in 1..NumReaders}
Threads == Writers \cup Readers

\* ThreadArg.id
Id(t) == t[2]

\* the keys and values of the demonstration
DemoWriterKey(id, i) == id * 100 + i
DemoValue(key) == key * 10
DemoReaderKey(which, i) == which * 100 + i
DemoKeys == {DemoWriterKey(id, i) : id \in 1..NumWriters, i \in 0..(writer_ops - 1)}
               \cup {DemoReaderKey(w, i) : w \in 1..2, i \in 0..(reader_ops - 1)}
AllKeys == Keys \cup DemoKeys

\* Spec: the value writer id passes to its i-th lsm_add, of key `key`. lsm_add
\* and lsm_get only store and copy values, never compare them, so a value of
\* its own for every call loses no case; it names the call and the key.
AnyValue(id, i, key) == 1000 * key + 10 * (id * writer_ops + i)
Values == {AnyValue(id, i, k) : id \in 1..NumWriters, i \in 0..(writer_ops - 1), k \in Keys}
\* the values some lsm_add is called with for this key, in either driver
ValuesFor(key) == {AnyValue(id, i, key) : id \in 1..NumWriters, i \in 0..(writer_ops - 1)}
                     \cup {DemoValue(key)}

(***************************************************************************)
(* Memory                                                                  *)
(***************************************************************************)
\* the content of a field malloc returned and nothing has stored to yet
Uninit == -1
\* what a read of such a field may yield
Garbage == {0} \cup AllKeys \cup Values \cup {DemoValue(k) : k \in DemoKeys}
Read(x) == IF x = Uninit THEN Garbage ELSE {x}

\* tree->memtable == NULL
NULL == << >>

\* malloc(sizeof(Entry) * max_entries) followed by the in_use = 0 loop
FreshEntry == [key |-> Uninit, value |-> Uninit, in_use |-> 0]
FreshMemtable(max_entries) == [i \in 0..(max_entries - 1) |-> FreshEntry]

(***************************************************************************)
(* pthread_rwlock_t                                                        *)
(***************************************************************************)
NoThread == << >>
LockFree == [writer |-> NoThread, readers |-> {}]

\* a wrlock that does not wait for the readers
CanWrLock_IgnoresReaders(lock) == lock.writer = NoThread
\* a wrlock that does not wait for another writer
CanWrLock_IgnoresWriter(lock) == lock.readers = {}
\* pthread_rwlock_wrlock returns once no thread holds the lock in any mode
CanWrLock(lock) == lock.writer = NoThread /\ lock.readers = {}
\* a rdlock that waits for the other readers too
CanRdLock_Exclusive(lock) == lock.writer = NoThread /\ lock.readers = {}
\* pthread_rwlock_rdlock returns once no writer holds the lock
CanRdLock(lock) == lock.writer = NoThread
WrLock(lock, t) == [lock EXCEPT !.writer = t]
\* an lsm_get that scans without taking the lock
RdLock_NotTaken(lock, t) == lock
RdLock(lock, t) == [lock EXCEPT !.readers = @ \cup {t}]
\* a lock that is never released
Unlock_Forgotten(lock, t) == lock
\* pthread_rwlock_unlock by a thread that holds the lock
Unlock(lock, t) ==
    IF lock.writer = t THEN [lock EXCEPT !.writer = NoThread]
    ELSE [lock EXCEPT !.readers = @ \ {t}]

(***************************************************************************)
(* State                                                                   *)
(***************************************************************************)
VARIABLES
    memtable,         \* lsm.memtable: NULL or the array of entries
    memtable_max,     \* lsm.memtable_max
    memtable_count,   \* lsm.memtable_count
    rwlock,           \* lsm.rwlock: who holds it
    rwlock_live,      \* between pthread_rwlock_init and pthread_rwlock_destroy
    main,             \* main's position: [pc, i]
    thr,              \* each thread's position and locals
    lastAdd,          \* history: per key, the last lsm_add call that took the lock
    lastRet,          \* history: per key, the last lsm_add call that returned
    wrlocks,          \* history: how many times the write lock has been taken
    appended,         \* history: how many entries lsm_add has begun to append
    ref,              \* history: the bounded map the lsm_add calls make up
    reported,         \* history: the keys some lsm_get has found
    destroys          \* history: how many times lsm_destroy has run

vars == <<memtable, memtable_max, memtable_count, rwlock, rwlock_live, main, thr,
          lastAdd, lastRet, wrlocks, appended, ref, reported, destroys>>
tree == <<memtable, memtable_max, memtable_count>>
hist == <<lastAdd, lastRet, wrlocks, appended, ref, reported, destroys>>

\* a call of lsm_add is named by its thread and the thread's loop index; the
\* history keeps its value, whether it printed "Memtable full" and whether it
\* has returned
NoCall == << >>
NoAdd == [call |-> NoCall, value |-> Uninit, rejected |-> FALSE, returned |-> FALSE]
\* what a call of lsm_get found in the history when it was made
NoSnap == [add |-> NoAdd, ret |-> NoAdd, seen |-> FALSE]
\* the table as a call found it when it took the lock
NoPre == [memtable |-> NULL, memtable_count |-> -1]
\* what a call of lsm_add met when it took the lock: its place among the
\* takings of the write lock, memtable_count, and whether its key was there
NoTaking == [seq |-> 0, count |-> 0, had |-> FALSE]

\* the empty bounded map
EmptyMap == << >>

\* a thread before pthread_create
Unborn ==
    [pc |-> "unborn", i |-> 0, which |-> 1, key |-> 0, value |-> Uninit,
     idx |-> 0, updated |-> 0, found |-> 0, emitted |-> << >>,
     pre |-> NoPre, snap |-> NoSnap,
     \* history of the current call: locks taken and released, the content of
     \* *out_value at the call and the stores to it, the taking of the write
     \* lock, and the taking of the caller's previous call
     locks |-> 0, unlocks |-> 0, out0 |-> Uninit, stores |-> 0,
     taking |-> NoTaking, first |-> NoTaking]

\* a thread that has returned from its thread function
Finished == [Unborn EXCEPT !.pc = "done"]

Init ==
    /\ memtable = NULL
    /\ memtable_max = 0
    /\ memtable_count = 0
    /\ rwlock = LockFree
    /\ rwlock_live = FALSE
    /\ main = [pc |-> "m_init", i |-> 0]
    /\ thr = [t \in Threads |-> Unborn]
    /\ lastAdd = [k \in AllKeys |-> NoAdd]
    /\ lastRet = [k \in AllKeys |-> NoAdd]
    /\ wrlocks = 0
    /\ appended = 0
    /\ ref = EmptyMap
    /\ reported = {}
    /\ destroys = 0

\* Spec starts after lsm_init(&lsm, c) succeeded, for any capacity c, with the
\* driver's threads started: every writer and the first AnyReaders readers
InitAny ==
    /\ \E c \in Capacities :
         /\ memtable = FreshMemtable(c)
         /\ memtable_max = c
    /\ memtable_count = 0
    /\ rwlock = LockFree
    /\ rwlock_live = TRUE
    /\ main = [pc |-> "m_any", i |-> 0]
    /\ thr = [t \in Threads |->
                IF t \in Writers THEN [Unborn EXCEPT !.pc = "w_loop"]
                ELSE IF Id(t) <= AnyReaders THEN [Unborn EXCEPT !.pc = "r_loop"]
                ELSE Unborn]
    /\ lastAdd = [k \in AllKeys |-> NoAdd]
    /\ lastRet = [k \in AllKeys |-> NoAdd]
    /\ wrlocks = 0
    /\ appended = 0
    /\ ref = EmptyMap
    /\ reported = {}
    /\ destroys = 0

\* SpecTwice starts after lsm_init(&lsm, c) succeeded, for any capacity c, with
\* the writer threads started
InitTwice ==
    /\ \E c \in Capacities :
         /\ memtable = FreshMemtable(c)
         /\ memtable_max = c
    /\ memtable_count = 0
    /\ rwlock = LockFree
    /\ rwlock_live = TRUE
    /\ main = [pc |-> "m_twice", i |-> 0]
    /\ thr = [t \in Threads |->
                IF t \in Writers THEN [Unborn EXCEPT !.pc = "w_loop"] ELSE Unborn]
    /\ lastAdd = [k \in AllKeys |-> NoAdd]
    /\ lastRet = [k \in AllKeys |-> NoAdd]
    /\ wrlocks = 0
    /\ appended = 0
    /\ ref = EmptyMap
    /\ reported = {}
    /\ destroys = 0

(***************************************************************************)
(* lsm_init, lsm_destroy                                                   *)
(***************************************************************************)
\* lsm_init when malloc succeeds
LsmInit(max_entries) ==
    /\ main.pc = "m_init"
    /\ memtable_max' = max_entries
    /\ memtable_count' = 0
    /\ memtable' = FreshMemtable(max_entries)
    /\ rwlock' = LockFree
    /\ rwlock_live' = TRUE
    /\ main' = [pc |-> "m_create_w", i |-> 0]
    /\ UNCHANGED <<thr, hist>>

\* lsm_init when malloc returns NULL: exit(EXIT_FAILURE)
LsmInitFail(max_entries) ==
    /\ main.pc = "m_init"
    /\ memtable_max' = max_entries
    /\ memtable_count' = 0
    /\ memtable' = NULL
    /\ main' = [pc |-> "m_exit", i |-> 0]
    /\ UNCHANGED <<rwlock, rwlock_live, thr, hist>>

LsmDestroy ==
    /\ main.pc = "m_destroy"
    /\ rwlock_live' = FALSE
    /\ rwlock' = LockFree
    /\ memtable' = NULL
    /\ memtable_max' = 0
    /\ memtable_count' = 0
    /\ main' = [pc |-> "m_done", i |-> 0]
    /\ destroys' = destroys + 1
    /\ UNCHANGED <<thr, lastAdd, lastRet, wrlocks, appended, ref, reported>>

(***************************************************************************)
(* lsm_add                                                                 *)
(***************************************************************************)
\* a match that tests in_use the wrong way round
EntryMatches_Inverted(in_use, key, wanted) == in_use = 0 /\ key = wanted
\* tree->memtable[i].in_use && tree->memtable[i].key == key
EntryMatches(in_use, key, wanted) == in_use # 0 /\ key = wanted

\* a capacity test that is off by one
HasRoom_OffByOne(count, max) == count <= max
\* tree->memtable_count < tree->memtable_max
HasRoom(count, max) == count < max

\* stores that are left out
StoreValue_Lost(mt, i, value) == mt
StoreInUse_Lost(mt, i) == mt
\* the stores to an entry's fields
StoreKey(mt, i, key) == [mt EXCEPT ![i].key = key]
StoreValue(mt, i, value) == [mt EXCEPT ![i].value = value]
StoreInUse(mt, i) == [mt EXCEPT ![i].in_use = 1]

\* the index lsm_get's loop stops at for key in a table, -1 when it finds none
RECURSIVE ScanFrom(_, _, _, _)
ScanFrom(mt, count, key, i) ==
    IF i >= count THEN -1
    ELSE IF EntryMatches(mt[i].in_use, mt[i].key, key) THEN i
    ELSE ScanFrom(mt, count, key, i + 1)
Scan(mt, count, key) == ScanFrom(mt, count, key, 0)

\* the bounded map of capacity max after upsert(key, value): overwrite the
\* key if present, insert it if fewer than max keys are present, otherwise
\* nothing
RefUpsert(map, max, key, value) ==
    IF key \in DOMAIN map THEN [map EXCEPT ![key] = value]
    ELSE IF Cardinality(DOMAIN map) < max
         THEN [k \in DOMAIN map \cup {key} |-> IF k = key THEN value ELSE map[k]]
    ELSE map

\* the text lsm_add writes to stderr (line 73) and to stdout (line 76)
FullMessage(key) == <<"full", key>>
AddedMessage(key, value) == <<"added", key, value>>

\* thread t has written a message of kind m in its current lsm_add
Emitted(t, m) == \E n \in 1..Len(thr[t].emitted) : thr[t].emitted[n][1] = m

\* a rejected lsm_add that leaves out the printf of line 76
AfterFull_SkipsPrint == "add_unlock"
\* the statement after the if / else of lines 65-75: the printf of line 76
AfterFull == "add_print"

\* the call, common to both drivers: thread t enters lsm_add(&lsm, key, value)
CallAdd(t, key, value) ==
    thr' = [thr EXCEPT ![t] = [@ EXCEPT !.pc = "add_wrlock", !.key = key,
                                        !.value = value]]

\* pthread_rwlock_wrlock; int updated = 0; int i = 0
AddWrLock(t) ==
    /\ thr[t].pc = "add_wrlock"
    /\ rwlock_live
    /\ CanWrLock(rwlock)
    /\ rwlock' = WrLock(rwlock, t)
    /\ thr' = [thr EXCEPT ![t] = [@ EXCEPT !.pc = "add_scan", !.updated = 0, !.idx = 0,
                   !.pre = [memtable |-> memtable, memtable_count |-> memtable_count],
                   !.locks = @ + 1,
                   !.taking = [seq |-> wrlocks + 1, count |-> memtable_count,
                               had |-> Scan(memtable, memtable_count, thr[t].key) # -1]]]
    /\ lastAdd' = [lastAdd EXCEPT ![thr[t].key] =
                      [call |-> <<t, thr[t].i>>, value |-> thr[t].value,
                       rejected |-> FALSE, returned |-> FALSE]]
    /\ wrlocks' = wrlocks + 1
    /\ ref' = RefUpsert(ref, memtable_max, thr[t].key, thr[t].value)
    /\ UNCHANGED <<tree, rwlock_live, main, lastRet, appended, reported, destroys>>

\* one iteration of the for loop of lines 57-63, or, when the loop ends, the
\* tests of lines 65-66 and the fprintf of line 73
AddScan(t) ==
    /\ thr[t].pc = "add_scan"
    /\ LET me == thr[t] IN
       IF me.idx < memtable_count
       THEN /\ \E u \in Read(memtable[me.idx].in_use) :
               \E k \in (IF u # 0 THEN Read(memtable[me.idx].key) ELSE {0}) :
                 IF EntryMatches(u, k, me.key)
                 THEN /\ memtable' = StoreValue(memtable, me.idx, me.value)
                      /\ thr' = [thr EXCEPT ![t] = [@ EXCEPT !.updated = 1,
                                                             !.pc = "add_print"]]
                 ELSE /\ thr' = [thr EXCEPT ![t] = [@ EXCEPT !.idx = @ + 1]]
                      /\ UNCHANGED memtable
            /\ UNCHANGED lastAdd
       ELSE /\ UNCHANGED memtable
            /\ IF HasRoom(memtable_count, memtable_max)
               THEN /\ thr' = [thr EXCEPT ![t] = [@ EXCEPT !.pc = "add_key"]]
                    /\ UNCHANGED lastAdd
               ELSE /\ thr' = [thr EXCEPT ![t] = [@ EXCEPT !.pc = AfterFull,
                                                  !.emitted = Append(@, FullMessage(me.key))]]
                    /\ lastAdd' = [lastAdd EXCEPT ![me.key] =
                                     IF @.call = <<t, me.i>>
                                     THEN [@ EXCEPT !.rejected = TRUE] ELSE @]
    /\ UNCHANGED <<memtable_max, memtable_count, rwlock, rwlock_live, main, lastRet,
                   wrlocks, appended, ref, reported, destroys>>

\* tree->memtable[tree->memtable_count].key = key
AddKey(t) ==
    /\ thr[t].pc = "add_key"
    /\ memtable' = StoreKey(memtable, memtable_count, thr[t].key)
    /\ thr' = [thr EXCEPT ![t] = [@ EXCEPT !.pc = "add_value"]]
    /\ appended' = appended + 1
    /\ UNCHANGED <<memtable_max, memtable_count, rwlock, rwlock_live, main,
                   lastAdd, lastRet, wrlocks, ref, reported, destroys>>

\* tree->memtable[tree->memtable_count].value = value
AddValue(t) ==
    /\ thr[t].pc = "add_value"
    /\ memtable' = StoreValue(memtable, memtable_count, thr[t].value)
    /\ thr' = [thr EXCEPT ![t] = [@ EXCEPT !.pc = "add_in_use"]]
    /\ UNCHANGED <<memtable_max, memtable_count, rwlock, rwlock_live, main, hist>>

\* tree->memtable[tree->memtable_count].in_use = 1
AddInUse(t) ==
    /\ thr[t].pc = "add_in_use"
    /\ memtable' = StoreInUse(memtable, memtable_count)
    /\ thr' = [thr EXCEPT ![t] = [@ EXCEPT !.pc = "add_count"]]
    /\ UNCHANGED <<memtable_max, memtable_count, rwlock, rwlock_live, main, hist>>

\* tree->memtable_count++
AddCount(t) ==
    /\ thr[t].pc = "add_count"
    /\ memtable_count' = memtable_count + 1
    /\ thr' = [thr EXCEPT ![t] = [@ EXCEPT !.pc = "add_print"]]
    /\ UNCHANGED <<memtable, memtable_max, rwlock, rwlock_live, main, hist>>

\* printf("Writer: added key %d, value %d\n", key, value)
AddPrint(t) ==
    /\ thr[t].pc = "add_print"
    /\ thr' = [thr EXCEPT ![t] = [@ EXCEPT !.pc = "add_unlock",
                                           !.emitted = Append(@,
                                               AddedMessage(thr[t].key, thr[t].value))]]
    /\ UNCHANGED <<tree, rwlock, rwlock_live, main, hist>>

\* pthread_rwlock_unlock; nothing reads the locals i and updated after it
AddUnlock(t) ==
    /\ thr[t].pc = "add_unlock"
    /\ rwlock' = Unlock(rwlock, t)
    /\ thr' = [thr EXCEPT ![t] = [@ EXCEPT !.pc = "add_ret", !.idx = 0,
                                           !.updated = 0, !.pre = NoPre,
                                           !.unlocks = @ + 1]]
    /\ UNCHANGED <<tree, rwlock_live, main, hist>>

\* what lsm_add hands back to its caller: it is declared void
AddResult(t) == "void"
\* what lsm_get hands back to its caller: return found
GetResult(t) == thr[t].found

\* lsm_add returns (void) to writer_thread, which sleeps and steps its loop;
\* the locals of lsm_add are gone
AddReturn(t) ==
    /\ thr[t].pc = "add_ret"
    /\ thr' = [thr EXCEPT ![t] = [Unborn EXCEPT !.pc = "w_loop", !.i = thr[t].i + 1]]
    /\ lastRet' = [lastRet EXCEPT ![thr[t].key] =
                      [call |-> <<t, thr[t].i>>, value |-> thr[t].value,
                       rejected |-> Emitted(t, "full"), returned |-> TRUE]]
    /\ lastAdd' = [lastAdd EXCEPT ![thr[t].key] =
                      IF @.call = <<t, thr[t].i>>
                      THEN [@ EXCEPT !.returned = TRUE] ELSE @]
    /\ UNCHANGED <<tree, rwlock, rwlock_live, main, wrlocks, appended, ref, reported,
                   destroys>>

(***************************************************************************)
(* lsm_get                                                                 *)
(***************************************************************************)
\* the call: thread t enters lsm_get(&lsm, key, &value); snap is what the
\* history says of the key at this moment
CallGet(t, key, snap) ==
    thr' = [thr EXCEPT ![t] = [@ EXCEPT !.pc = "get_rdlock", !.key = key,
                                        !.snap = snap, !.out0 = thr[t].value]]

\* pthread_rwlock_rdlock; int found = 0; int i = 0
GetRdLock(t) ==
    /\ thr[t].pc = "get_rdlock"
    /\ rwlock_live
    /\ CanRdLock(rwlock)
    /\ rwlock' = RdLock(rwlock, t)
    /\ thr' = [thr EXCEPT ![t] = [@ EXCEPT !.pc = "get_scan", !.found = 0, !.idx = 0,
                   !.pre = [memtable |-> memtable, memtable_count |-> memtable_count],
                   !.locks = @ + 1]]
    /\ UNCHANGED <<tree, rwlock_live, main, hist>>

\* a store to *out_value that copies nothing
StoreOut_Stale(me, v) == [me EXCEPT !.stores = @ + 1]
\* *out_value = tree->memtable[i].value
StoreOut(me, v) == [me EXCEPT !.value = v, !.stores = @ + 1]

\* one iteration of the for loop of lines 87-93, or its end
GetScan(t) ==
    /\ thr[t].pc = "get_scan"
    /\ LET me == thr[t] IN
       IF me.idx < memtable_count
       THEN \E u \in Read(memtable[me.idx].in_use) :
            \E k \in (IF u # 0 THEN Read(memtable[me.idx].key) ELSE {0}) :
              IF EntryMatches(u, k, me.key)
              THEN \E v \in Read(memtable[me.idx].value) :
                     thr' = [thr EXCEPT ![t] = [StoreOut(me, v) EXCEPT !.found = 1,
                                                             !.pc = "get_unlock"]]
              ELSE thr' = [thr EXCEPT ![t] = [@ EXCEPT !.idx = @ + 1]]
       ELSE thr' = [thr EXCEPT ![t] = [@ EXCEPT !.pc = "get_unlock"]]
    /\ UNCHANGED <<tree, rwlock, rwlock_live, main, hist>>

\* pthread_rwlock_unlock; only found is read after it
GetUnlock(t) ==
    /\ thr[t].pc = "get_unlock"
    /\ rwlock' = Unlock(rwlock, t)
    /\ thr' = [thr EXCEPT ![t] = [@ EXCEPT !.pc = "get_ret", !.idx = 0, !.key = 0,
                                           !.pre = NoPre, !.snap = NoSnap,
                                           !.unlocks = @ + 1]]
    /\ reported' = IF thr[t].found = 1 THEN reported \cup {thr[t].key} ELSE reported
    /\ UNCHANGED <<tree, rwlock_live, main, lastAdd, lastRet, wrlocks, appended, ref,
                   destroys>>

\* return found; reader_thread prints the result and goes on to its second
\* lsm_get, or sleeps and steps its loop, where the loop body's `int value`
\* starts unset again; the locals of lsm_get are gone
GetReturn(t) ==
    /\ thr[t].pc = "get_ret"
    /\ thr' = [thr EXCEPT ![t] =
                  [Unborn EXCEPT !.pc = "r_loop",
                                 !.value = IF thr[t].which = 1 THEN thr[t].value ELSE Uninit,
                                 !.which = IF thr[t].which = 1 THEN 2 ELSE 1,
                                 !.i = IF thr[t].which = 2 THEN thr[t].i + 1 ELSE thr[t].i]]
    /\ UNCHANGED <<tree, rwlock, rwlock_live, main, hist>>

(***************************************************************************)
(* writer_thread, reader_thread                                            *)
(***************************************************************************)
\* writer_thread: key = id * 100 + i; value = key * 10; lsm_add(&lsm, key, value)
WriterCall(t) ==
    /\ t \in Writers
    /\ thr[t].pc = "w_loop"
    /\ thr[t].i < writer_ops
    /\ CallAdd(t, DemoWriterKey(Id(t), thr[t].i), DemoValue(DemoWriterKey(Id(t), thr[t].i)))
    /\ UNCHANGED <<tree, rwlock, rwlock_live, main, hist>>

\* a writer thread of any driver: lsm_add(&lsm, key, value)
AnyWriterCall(t) ==
    /\ t \in Writers
    /\ thr[t].pc = "w_loop"
    /\ thr[t].i < writer_ops
    /\ \E key \in Keys : CallAdd(t, key, AnyValue(Id(t), thr[t].i, key))
    /\ UNCHANGED <<tree, rwlock, rwlock_live, main, hist>>

\* a caller that makes every call twice: lsm_add(&lsm, key, value) with any
\* key, then lsm_add(&lsm, key, value) again with the same arguments
TwiceCall(t) ==
    /\ t \in Writers
    /\ thr[t].pc = "w_loop"
    /\ thr[t].i < writer_ops
    /\ IF thr[t].which = 1
       THEN \E key \in Keys : CallAdd(t, key, AnyValue(Id(t), thr[t].i, key))
       ELSE CallAdd(t, thr[t].key, thr[t].value)
    /\ UNCHANGED <<tree, rwlock, rwlock_live, main, hist>>

\* lsm_add returns (void) to that caller, which keeps key and value for its
\* second call, or steps its loop after it
TwiceReturn(t) ==
    /\ thr[t].pc = "add_ret"
    /\ thr' = [thr EXCEPT ![t] =
                  IF thr[t].which = 1
                  THEN [Unborn EXCEPT !.pc = "w_loop", !.i = thr[t].i, !.which = 2,
                                      !.key = thr[t].key, !.value = thr[t].value,
                                      !.first = thr[t].taking]
                  ELSE [Unborn EXCEPT !.pc = "w_loop", !.i = thr[t].i + 1]]
    /\ lastRet' = [lastRet EXCEPT ![thr[t].key] =
                      [call |-> <<t, thr[t].i>>, value |-> thr[t].value,
                       rejected |-> Emitted(t, "full"), returned |-> TRUE]]
    /\ lastAdd' = [lastAdd EXCEPT ![thr[t].key] =
                      IF @.call = <<t, thr[t].i>>
                      THEN [@ EXCEPT !.returned = TRUE] ELSE @]
    /\ UNCHANGED <<tree, rwlock, rwlock_live, main, wrlocks, appended, ref, reported,
                   destroys>>

\* printf("Writer thread %d finished\n", id); return NULL
WriterFinish(t) ==
    /\ t \in Writers
    /\ thr[t].pc = "w_loop"
    /\ thr[t].i >= writer_ops
    /\ thr' = [thr EXCEPT ![t] = Finished]
    /\ UNCHANGED <<tree, rwlock, rwlock_live, main, hist>>

\* reader_thread: lsm_get(&lsm, key1, &value), then lsm_get(&lsm, key2, &value)
ReaderCall(t) ==
    /\ t \in Readers
    /\ thr[t].pc = "r_loop"
    /\ thr[t].i < reader_ops
    /\ LET key == DemoReaderKey(thr[t].which, thr[t].i)
       IN  CallGet(t, key, [NoSnap EXCEPT !.seen = key \in reported])
    /\ UNCHANGED <<tree, rwlock, rwlock_live, main, hist>>

\* a reader thread of any driver: lsm_get(&lsm, key, &value)
AnyReaderCall(t) ==
    /\ t \in Readers
    /\ thr[t].pc = "r_loop"
    /\ thr[t].i < reader_ops
    /\ \E key \in Keys : CallGet(t, key, [add |-> lastAdd[key], ret |-> lastRet[key],
                                            seen |-> key \in reported])
    /\ UNCHANGED <<tree, rwlock, rwlock_live, main, hist>>

\* printf("Reader thread %d finished\n", id); return NULL
ReaderFinish(t) ==
    /\ t \in Readers
    /\ thr[t].pc = "r_loop"
    /\ thr[t].i >= reader_ops
    /\ thr' = [thr EXCEPT ![t] = Finished]
    /\ UNCHANGED <<tree, rwlock, rwlock_live, main, hist>>

(***************************************************************************)
(* main                                                                    *)
(***************************************************************************)
\* pthread_create(&writer_threads[i], NULL, writer_thread, &writer_args[i])
CreateWriter ==
    /\ main.pc = "m_create_w"
    /\ thr' = [thr EXCEPT ![<<"w", main.i + 1>>] = [@ EXCEPT !.pc = "w_loop"]]
    /\ main' = IF main.i + 1 < NumWriters THEN [main EXCEPT !.i = @ + 1]
               ELSE [pc |-> "m_create_r", i |-> 0]
    /\ UNCHANGED <<tree, rwlock, rwlock_live, hist>>

\* pthread_create(&reader_threads[j], NULL, reader_thread, &reader_args[j])
CreateReader ==
    /\ main.pc = "m_create_r"
    /\ thr' = [thr EXCEPT ![<<"r", main.i + 1>>] = [@ EXCEPT !.pc = "r_loop"]]
    /\ main' = IF main.i + 1 < NumReaders THEN [main EXCEPT !.i = @ + 1]
               ELSE [pc |-> "m_join_w", i |-> 0]
    /\ UNCHANGED <<tree, rwlock, rwlock_live, hist>>

\* a join that does not wait
Joined_NoWait(t) == TRUE
\* pthread_join returns once the thread has returned from its function
Joined(t) == thr[t].pc = "done"

\* pthread_join(writer_threads[i], NULL)
JoinWriter ==
    /\ main.pc = "m_join_w"
    /\ Joined(<<"w", main.i + 1>>)
    /\ main' = IF main.i + 1 < NumWriters THEN [main EXCEPT !.i = @ + 1]
               ELSE [pc |-> "m_join_r", i |-> 0]
    /\ UNCHANGED <<tree, rwlock, rwlock_live, thr, hist>>

\* pthread_join(reader_threads[j], NULL)
JoinReader ==
    /\ main.pc = "m_join_r"
    /\ Joined(<<"r", main.i + 1>>)
    /\ main' = IF main.i + 1 < NumReaders THEN [main EXCEPT !.i = @ + 1]
               ELSE [pc |-> "m_dump", i |-> 0]
    /\ UNCHANGED <<tree, rwlock, rwlock_live, thr, hist>>

\* the final print of lsm.memtable_count and of every entry in use
Dump ==
    /\ main.pc = "m_dump"
    /\ main' = [pc |-> "m_destroy", i |-> 0]
    /\ UNCHANGED <<tree, rwlock, rwlock_live, thr, hist>>

(***************************************************************************)
(* Specifications                                                          *)
(***************************************************************************)
\* the steps of lsm_add between its call and its return
LsmAddStep(t) ==
    \/ AddWrLock(t) \/ AddScan(t) \/ AddKey(t) \/ AddValue(t) \/ AddInUse(t)
    \/ AddCount(t) \/ AddPrint(t) \/ AddUnlock(t)

\* the steps of lsm_add, lsm_get and of the thread functions around them
ThreadStep ==
    \/ \E t \in Writers : LsmAddStep(t) \/ AddReturn(t) \/ WriterFinish(t)
    \/ \E t \in Readers :
         \/ GetRdLock(t) \/ GetScan(t) \/ GetUnlock(t) \/ GetReturn(t)
         \/ ReaderFinish(t)

\* any driver: threads that call lsm_add and lsm_get with any key
Next ==
    \/ \E t \in Writers : AnyWriterCall(t)
    \/ \E t \in Readers : AnyReaderCall(t)
    \/ ThreadStep

\* main and its threads
NextDemo ==
    \/ LsmInit(DemoCapacity) \/ LsmInitFail(DemoCapacity)
    \/ CreateWriter \/ CreateReader \/ JoinWriter \/ JoinReader \/ Dump \/ LsmDestroy
    \/ \E t \in Writers : WriterCall(t)
    \/ \E t \in Readers : ReaderCall(t)
    \/ ThreadStep

\* threads that make every call of lsm_add twice
NextTwice ==
    \E t \in Writers : TwiceCall(t) \/ LsmAddStep(t) \/ TwiceReturn(t) \/ WriterFinish(t)

Spec == InitAny /\ [][Next]_vars
SpecTwice == InitTwice /\ [][NextTwice]_vars
SpecDemo == Init /\ [][NextDemo]_vars
\* the scheduler runs some thread that can run
FairDemo == SpecDemo /\ WF_vars(NextDemo)

(***************************************************************************)
(* Vocabulary of the properties                                            *)
(***************************************************************************)
\* between pthread_rwlock_wrlock and pthread_rwlock_unlock in lsm_add
InAddCS(t) == thr[t].pc \in {"add_scan", "add_key", "add_value", "add_in_use",
                             "add_count", "add_print", "add_unlock"}
\* between pthread_rwlock_rdlock and pthread_rwlock_unlock in lsm_get
InGetCS(t) == thr[t].pc \in {"get_scan", "get_unlock"}
\* inside a call of lsm_add or lsm_get
InCall(t) == InAddCS(t) \/ InGetCS(t)
                 \/ thr[t].pc \in {"add_wrlock", "add_ret", "get_rdlock", "get_ret"}

(***************************************************************************)
(* C1                                                                      *)
(***************************************************************************)
\* C1: while a thread is inside the critical section of lsm_add, no other
\* thread is inside the critical section of lsm_add or of lsm_get.
C1_MutualExclusion ==
    \A t \in Threads :
        InAddCS(t) => \A u \in Threads \ {t} : ~InAddCS(u) /\ ~InGetCS(u)

\* a writer in its critical section while a writer and a reader wait for the lock
C1_Witness ==
    \E t \in Writers :
        /\ InAddCS(t)
        /\ \E u \in Writers \ {t} : thr[u].pc = "add_wrlock"
        /\ \E r \in Readers : thr[r].pc = "get_rdlock"

(***************************************************************************)
(* C2                                                                      *)
(***************************************************************************)
\* C2 as claimed: when lsm_add(k, v) had returned before lsm_get(k) was called
\* and no lsm_add(k, *) has returned after it, the lsm_get finds v.
C2_ReadAfterWrite ==
    \A r \in Readers :
        (/\ thr[r].pc = "get_unlock"
         /\ thr[r].snap.ret.returned
         /\ lastRet[thr[r].key] = thr[r].snap.ret)
        => (thr[r].found = 1 /\ thr[r].value = thr[r].snap.ret.value)

\* C2 amended: when lsm_add(k, v) had returned before lsm_get(k) was called,
\* was not rejected for a full table, and no lsm_add(k, *) has taken the write
\* lock after it did, the lsm_get finds v.
C2_ReadAfterAcceptedWrite ==
    \A r \in Readers :
        (/\ thr[r].pc = "get_unlock"
         /\ thr[r].snap.add.returned
         /\ ~thr[r].snap.add.rejected
         /\ lastAdd[thr[r].key].call = thr[r].snap.add.call)
        => (thr[r].found = 1 /\ thr[r].value = thr[r].snap.add.value)

\* an lsm_get that finds the value of a returned lsm_add, its thread's
\* second call, in a table of two entries
C2_Witness ==
    \E r \in Readers :
        /\ thr[r].pc = "get_unlock"
        /\ thr[r].snap.add.returned
        /\ ~thr[r].snap.add.rejected
        /\ lastAdd[thr[r].key].call = thr[r].snap.add.call
        /\ thr[r].found = 1
        /\ memtable_count = 2
        /\ thr[r].snap.add.call[2] = 1

(***************************************************************************)
(* C3                                                                      *)
(***************************************************************************)
\* the number of lsm_add calls of writer w that have left the critical section
Completed(w) ==
    IF thr[w].pc = "done" THEN writer_ops
    ELSE IF thr[w].pc = "add_ret" THEN thr[w].i + 1
    ELSE thr[w].i

RECURSIVE SumCompleted(_)
SumCompleted(S) ==
    IF S = {} THEN 0
    ELSE LET w == CHOOSE x \in S : TRUE IN Completed(w) + SumCompleted(S \ {w})

\* C3: in the demonstration the capacity is at least the number of keys the
\* writers add, and whenever no lsm_add is inside its critical section (from
\* lsm_init to lsm_destroy) every key id*100+i whose lsm_add has left it is
\* found with value key*10 and memtable_count is the number of these keys; so
\* once every writer has finished, all the keys are there and memtable_count
\* is their number.
C3_NoLostUpdates ==
    /\ main.pc \notin {"m_init", "m_exit", "m_done"} =>
          memtable_max >= NumWriters * writer_ops
    /\ (main.pc \notin {"m_init", "m_exit", "m_done"} /\ \A w \in Writers : ~InAddCS(w))
       => /\ memtable_count = SumCompleted(Writers)
          /\ \A w \in Writers : \A i \in 0..(writer_ops - 1) :
                i < Completed(w) =>
                  LET key == DemoWriterKey(Id(w), i)
                      at == Scan(memtable, memtable_count, key)
                  IN  at # -1 /\ memtable[at].value = DemoValue(key)
    /\ ((\A w \in Writers : thr[w].pc = "done") /\ main.pc # "m_done")
       => memtable_count = NumWriters * writer_ops

\* all writers finished, the table still there
C3_Witness ==
    /\ \A w \in Writers : thr[w].pc = "done"
    /\ main.pc = "m_dump"
    /\ memtable_count = NumWriters * writer_ops

(***************************************************************************)
(* C4                                                                      *)
(***************************************************************************)
\* C4: no two entries below memtable_count are in use with the same key.
C4_Uniqueness ==
    \A i \in 0..(memtable_count - 1) : \A j \in 0..(memtable_count - 1) :
        (i # j /\ memtable[i].in_use # 0 /\ memtable[j].in_use # 0)
        => memtable[i].key # memtable[j].key

\* two entries, and an lsm_add that has just overwritten one of them
C4_Witness ==
    /\ memtable_count = 2
    /\ \E t \in Writers : thr[t].pc = "add_print" /\ thr[t].updated = 1

(***************************************************************************)
(* C5                                                                      *)
(***************************************************************************)
\* C5: memtable_count never exceeds memtable_max; an lsm_add prints "Memtable
\* full" exactly when it found the table full and its key absent, and then
\* the table at its unlock is the table it found; an lsm_get of the key made
\* after that lsm_add returned, no other lsm_add of the key having taken the
\* lock since, finds nothing.
C5_CapacityBound ==
    /\ memtable_count <= memtable_max
    /\ \A t \in Writers :
         thr[t].pc = "add_unlock" =>
           /\ Emitted(t, "full") <=>
                 (/\ thr[t].pre.memtable_count = memtable_max
                  /\ Scan(thr[t].pre.memtable, thr[t].pre.memtable_count, thr[t].key) = -1)
           /\ Emitted(t, "full") =>
                 (/\ memtable = thr[t].pre.memtable
                  /\ memtable_count = thr[t].pre.memtable_count
                  /\ Scan(memtable, memtable_count, thr[t].key) = -1)
    /\ \A r \in Readers :
         (/\ thr[r].pc = "get_unlock"
          /\ thr[r].snap.add.returned
          /\ thr[r].snap.add.rejected
          /\ lastAdd[thr[r].key].call = thr[r].snap.add.call)
         => thr[r].found = 0

\* an lsm_get that follows a rejected lsm_add of its key and finds nothing
C5_Witness ==
    \E r \in Readers :
        /\ thr[r].pc = "get_unlock"
        /\ thr[r].snap.add.returned
        /\ thr[r].snap.add.rejected
        /\ lastAdd[thr[r].key].call = thr[r].snap.add.call
        /\ thr[r].found = 0
        /\ memtable_count = memtable_max

(***************************************************************************)
(* C6                                                                      *)
(***************************************************************************)
\* C6: of two lsm_add calls about to return, one that was rejected for a full
\* table and one that was not, the callers are handed different results.
C6_RejectionSurfaced ==
    \A t \in Writers : \A u \in Writers :
        (/\ thr[t].pc = "add_ret"
         /\ thr[u].pc = "add_ret"
         /\ Emitted(t, "full")
         /\ ~Emitted(u, "full"))
        => AddResult(t) # AddResult(u)

(***************************************************************************)
(* C7                                                                      *)
(***************************************************************************)
\* the i-th lsm_add of writer w has taken the write lock
HasLocked(w, i) ==
    \/ thr[w].pc = "done"
    \/ thr[w].i > i
    \/ thr[w].i = i /\ (InAddCS(w) \/ thr[w].pc = "add_ret")

\* value v was passed with this key to an lsm_add that has taken the write lock
WrittenFor(key, v) ==
    \E w \in Writers : \E i \in 0..(writer_ops - 1) :
        v = AnyValue(Id(w), i, key) /\ HasLocked(w, i)

\* C7: an lsm_get that finds its key returns a value that an lsm_add of that
\* key, which has taken the write lock, was called with; and while an lsm_get
\* holds the lock every entry below memtable_count is complete: in use, with
\* a key and with a value written for that key.
C7_NoPartialWrites ==
    \A r \in Readers :
        /\ (thr[r].pc = "get_unlock" /\ thr[r].found = 1)
              => WrittenFor(thr[r].key, thr[r].value)
        /\ InGetCS(r) =>
              \A j \in 0..(memtable_count - 1) :
                  /\ memtable[j].in_use = 1
                  /\ memtable[j].key \in Keys
                  /\ WrittenFor(memtable[j].key, memtable[j].value)

\* an lsm_get returns a value while a writer waits to overwrite it
C7_Witness ==
    \E r \in Readers :
        /\ thr[r].pc = "get_unlock"
        /\ thr[r].found = 1
        /\ memtable_count = 2
        /\ \E w \in Writers : thr[w].pc = "add_wrlock" /\ thr[w].key = thr[r].key


(***************************************************************************)
(* C8                                                                      *)
(***************************************************************************)
MainThread == <<"m", 0>>
PcOf(t) == IF t = MainThread THEN main.pc ELSE thr[t].pc

\* what the statement at a position does to the entries or memtable_count:
\* lsm_add's loop reads them and may store a value, its append stores;
\* lsm_get's loop reads; lsm_init and lsm_destroy store; main's dump reads
Access(pc) ==
    IF pc \in {"add_scan", "add_key", "add_value", "add_in_use", "add_count",
               "m_init", "m_destroy"} THEN "write"
    ELSE IF pc \in {"get_scan", "m_dump"} THEN "read"
    ELSE "none"

HoldsExclusive(t) == rwlock_live /\ rwlock.writer = t
HoldsShared(t) == rwlock_live /\ (t \in rwlock.readers \/ rwlock.writer = t)

AccessLocked(t) ==
    /\ Access(PcOf(t)) = "write" => HoldsExclusive(t)
    /\ Access(PcOf(t)) = "read" => HoldsShared(t)

\* C8 as claimed: every routine, main's lsm_init, dump and lsm_destroy
\* included, holds the lock in the right mode when it reads or writes the
\* entries or memtable_count.
C8_AllAccessLocked == \A t \in Threads \cup {MainThread} : AccessLocked(t)

\* C8 amended: lsm_add and lsm_get hold the lock in the right mode when they
\* read or write the entries or memtable_count; lsm_init, main's dump and
\* lsm_destroy hold no lock, and run only while no writer or reader thread
\* exists (none created yet, or all joined).
C8_ThreadAccessLocked ==
    /\ \A t \in Threads : AccessLocked(t)
    /\ Access(main.pc) # "none" =>
          /\ ~HoldsShared(MainThread)
          /\ \A t \in Threads : thr[t].pc \in {"unborn", "done"}

\* main about to dump a table the threads have filled, a lock nobody holds
C8_Witness ==
    /\ main.pc = "m_dump"
    /\ memtable_count = NumWriters * writer_ops
    /\ rwlock = LockFree

(***************************************************************************)
(* C9                                                                      *)
(***************************************************************************)
\* C9: under a fair scheduler every call of lsm_add or lsm_get that has begun
\* returns (no thread stays inside a call for ever: again and again it is
\* outside one), and once lsm_init has succeeded main reaches the end of
\* lsm_destroy with every thread finished.
C9_Progress ==
    /\ \A t \in Threads : []<>(~InCall(t))
    /\ (main.pc = "m_create_w") ~>
         (main.pc = "m_done" /\ \A t \in Threads : thr[t].pc = "done")

\* the end of main after lsm_destroy
C9_Witness ==
    /\ main.pc = "m_done"
    /\ \A t \in Threads : thr[t].pc = "done"
    /\ \A k \in DemoKeys : lastAdd[k].returned

(***************************************************************************)
(* C10                                                                     *)
(***************************************************************************)
\* C10: while no lsm_add is inside its critical section,
\* 0 <= memtable_count <= memtable_max, every entry below memtable_count is
\* in use and every entry from memtable_count on is not.
C10_TableShape ==
    (\A w \in Writers : ~InAddCS(w)) =>
        /\ 0 <= memtable_count
        /\ memtable_count <= memtable_max
        /\ DOMAIN memtable = 0..(memtable_max - 1)
        /\ \A i \in 0..(memtable_max - 1) :
             /\ i < memtable_count => memtable[i].in_use = 1
             /\ i >= memtable_count => memtable[i].in_use = 0

\* a table neither empty nor full, read by an lsm_get, an lsm_add having
\* returned and another waiting for the lock
C10_Witness ==
    /\ \A w \in Writers : ~InAddCS(w)
    /\ 0 < memtable_count
    /\ memtable_count < memtable_max
    /\ \E r \in Readers : thr[r].pc = "get_scan"
    /\ \E w \in Writers : thr[w].pc = "add_wrlock" /\ thr[w].i > 0

(***************************************************************************)
(* C11                                                                     *)
(***************************************************************************)
\* the entries below memtable_count that are in use with this key
EntriesFor(key) ==
    {j \in 0..(memtable_count - 1) : EntryMatches(memtable[j].in_use, memtable[j].key, key)}

\* C11: when a caller's second lsm_add(k, v) is about to release the lock,
\* its first lsm_add(k, v) having found k or room for k, and no other call
\* having taken the write lock between the two, the table is the one the
\* second call found (the one the first call left): exactly one entry has k,
\* its value is v, and memtable_count is at most one more than the first call
\* found it.
C11_Idempotent ==
    \A t \in Writers :
        (/\ thr[t].pc = "add_unlock"
         /\ thr[t].which = 2
         /\ thr[t].taking.seq = thr[t].first.seq + 1
         /\ (thr[t].first.had \/ HasRoom(thr[t].first.count, memtable_max)))
        => /\ memtable = thr[t].pre.memtable
           /\ memtable_count = thr[t].pre.memtable_count
           /\ Cardinality(EntriesFor(thr[t].key)) = 1
           /\ \A j \in EntriesFor(thr[t].key) : memtable[j].value = thr[t].value
           /\ memtable_count <= thr[t].first.count + 1
           /\ thr[t].updated = 1

\* a second call whose first call appended the key to a table that already
\* had an entry
C11_Witness ==
    \E t \in Writers :
        /\ thr[t].pc = "add_unlock"
        /\ thr[t].which = 2
        /\ thr[t].taking.seq = thr[t].first.seq + 1
        /\ ~thr[t].first.had
        /\ thr[t].first.count = 1
        /\ memtable_count = 2

(***************************************************************************)
(* C12                                                                     *)
(***************************************************************************)
\* C12: in the demonstration lsm_destroy runs at most once; when main is
\* about to run it, it has not run yet, every writer and reader thread has
\* returned from its function and the lock is there and free; once it has
\* run, main is at its end and no thread is inside or about to make a call;
\* and main does not stop before it has run, unless lsm_init exited.
C12_DestroyOnce ==
    /\ destroys <= 1
    /\ main.pc = "m_destroy" =>
          /\ destroys = 0
          /\ rwlock_live
          /\ rwlock = LockFree
          /\ \A t \in Threads : thr[t].pc = "done"
    /\ destroys = 1 =>
          /\ main.pc = "m_done"
          /\ ~rwlock_live
          /\ \A t \in Threads : thr[t].pc = "done"
    /\ (~ENABLED NextDemo) => (main.pc = "m_exit" \/ destroys = 1)

\* lsm_destroy has run, after every lsm_add of the demonstration
C12_Witness ==
    /\ destroys = 1
    /\ main.pc = "m_done"
    /\ wrlocks = NumWriters * writer_ops
    /\ memtable = NULL

(***************************************************************************)
(* C13                                                                     *)
(***************************************************************************)
\* C13: ref is the bounded map of capacity memtable_max that the lsm_add
\* calls make up in the order they took the write lock. It never holds more
\* than memtable_max keys; while no lsm_add is inside its critical section
\* the scan of lsm_get finds a key exactly when ref holds it, with ref's
\* value; and an lsm_get about to release the lock has found its key exactly
\* when ref holds it, with ref's value.
C13_BoundedMap ==
    /\ Cardinality(DOMAIN ref) <= memtable_max
    /\ (\A w \in Writers : ~InAddCS(w)) =>
          \A k \in Keys :
              LET at == Scan(memtable, memtable_count, k)
              IN  /\ at = -1 <=> k \notin DOMAIN ref
                  /\ at # -1 => memtable[at].value = ref[k]
    /\ \A r \in Readers :
          thr[r].pc = "get_unlock" =>
              /\ GetResult(r) = 1 <=> thr[r].key \in DOMAIN ref
              /\ GetResult(r) = 1 => thr[r].value = ref[thr[r].key]

\* an lsm_get that finds a key overwritten since it was inserted, in a full
\* table that has turned another key away
C13_Witness ==
    \E r \in Readers :
        /\ thr[r].pc = "get_unlock"
        /\ GetResult(r) = 1
        /\ lastAdd[thr[r].key].call # NoCall
        /\ \E k \in Keys : k \notin DOMAIN ref /\ lastRet[k].rejected
        /\ wrlocks >= 3
        /\ \E w \in Writers : thr[w].pc = "add_ret" /\ thr[w].key = thr[r].key
                                /\ thr[w].taking.had

(***************************************************************************)
(* C14                                                                     *)
(***************************************************************************)
\* thread t holds the lock in some mode
Holds(t) == rwlock.writer = t \/ t \in rwlock.readers

\* C14: a thread inside the critical section of lsm_add or lsm_get has taken
\* the lock once in this call and not released it, and holds it, lsm_add
\* exclusively; a thread about to return from lsm_add or lsm_get, whatever
\* path the call took, has taken the lock once and released it once and does
\* not hold it; a thread outside a call, or waiting for the lock, does not
\* hold it.
C14_OneCriticalSection ==
    \A t \in Threads :
        /\ InAddCS(t) =>
              thr[t].locks = 1 /\ thr[t].unlocks = 0 /\ rwlock.writer = t
        /\ InGetCS(t) =>
              thr[t].locks = 1 /\ thr[t].unlocks = 0 /\ t \in rwlock.readers
        /\ thr[t].pc \in {"add_ret", "get_ret"} =>
              thr[t].locks = 1 /\ thr[t].unlocks = 1 /\ ~Holds(t)
        /\ ~InCall(t) \/ thr[t].pc \in {"add_wrlock", "get_rdlock"} =>
              thr[t].locks = 0 /\ thr[t].unlocks = 0 /\ ~Holds(t)

\* two calls of lsm_add about to return, one turned away by a full table and
\* one that overwrote a value, after a call that appended
C14_Witness ==
    \E t \in Writers : \E u \in Writers :
        /\ thr[t].pc = "add_ret" /\ Emitted(t, "full")
        /\ thr[u].pc = "add_ret" /\ thr[u].taking.had
        /\ appended >= 1
        /\ rwlock = LockFree

(***************************************************************************)
(* C15                                                                     *)
(***************************************************************************)
\* C15: an lsm_add that has found its key, at index idx, has changed nothing
\* but that entry's value: memtable_count, every key, every in_use flag and
\* every other value are as the call found them when it took the lock; and
\* while an lsm_get is inside its critical section the entries and
\* memtable_count are as it found them.
C15_Frame ==
    /\ \A t \in Writers :
          (thr[t].pc \in {"add_print", "add_unlock"} /\ thr[t].updated = 1) =>
              /\ memtable_count = thr[t].pre.memtable_count
              /\ DOMAIN memtable = DOMAIN thr[t].pre.memtable
              /\ thr[t].idx = Scan(thr[t].pre.memtable, thr[t].pre.memtable_count, thr[t].key)
              /\ memtable[thr[t].idx].value = thr[t].value
              /\ \A j \in DOMAIN memtable :
                    /\ memtable[j].key = thr[t].pre.memtable[j].key
                    /\ memtable[j].in_use = thr[t].pre.memtable[j].in_use
                    /\ j # thr[t].idx => memtable[j].value = thr[t].pre.memtable[j].value
    /\ \A r \in Readers :
          InGetCS(r) =>
              /\ memtable = thr[r].pre.memtable
              /\ memtable_count = thr[r].pre.memtable_count

\* an lsm_add that has overwritten the value of the second of two entries
C15_Witness ==
    \E t \in Writers :
        /\ thr[t].pc = "add_unlock"
        /\ thr[t].updated = 1
        /\ thr[t].idx = 1
        /\ memtable_count = 2
        /\ thr[t].pre.memtable[1].value # thr[t].value

(***************************************************************************)
(* C16                                                                     *)
(***************************************************************************)
\* the entries of the whole array that are in use
Occupied == {j \in DOMAIN memtable : memtable[j].in_use # 0}

\* while no lsm_add is inside its critical section memtable_count is the
\* number of appends begun and the number of entries in use; an lsm_add past
\* its if / else has raised memtable_count by exactly one when it appended
\* and left it alone when it updated or was turned away
C16_Count ==
    /\ (\A w \in Writers : ~InAddCS(w)) =>
          /\ memtable_count = appended
          /\ memtable_count = Cardinality(Occupied)
    /\ \A t \in Writers :
          thr[t].pc \in {"add_print", "add_unlock"} =>
              memtable_count =
                  IF thr[t].updated = 0 /\ ~Emitted(t, "full")
                  THEN thr[t].pre.memtable_count + 1
                  ELSE thr[t].pre.memtable_count

\* a step from a table to a table (lsm_init before, lsm_destroy after) does
\* not lower memtable_count and keeps the key and the in_use flag of every
\* entry below memtable_count
C16_Step ==
    (rwlock_live /\ rwlock_live') =>
        /\ memtable_count' >= memtable_count
        /\ \A j \in 0..(memtable_count - 1) :
              /\ memtable'[j].key = memtable[j].key
              /\ memtable'[j].in_use = memtable[j].in_use

\* C16: between lsm_init and lsm_destroy memtable_count never decreases, an
\* accepted insertion raises it by exactly one, it equals the number of
\* entries ever appended, and an appended entry keeps its key and in_use.
C16_AppendOnly == []C16_Count /\ [][C16_Step]_vars

\* two entries appended and two values overwritten since
C16_Witness ==
    /\ \A w \in Writers : ~InAddCS(w)
    /\ appended = 2
    /\ memtable_count = 2
    /\ wrlocks = 4

(***************************************************************************)
(* C17                                                                     *)
(***************************************************************************)
\* C17: an lsm_get waiting at pthread_rwlock_rdlock can take the lock
\* whenever no writer holds it, whatever other lsm_get calls hold it; it
\* waits only while an lsm_add holds the lock.
C17_ReadersShare ==
    \A r \in Readers :
        (thr[r].pc = "get_rdlock" /\ rwlock_live) =>
            /\ rwlock.writer = NoThread => ENABLED GetRdLock(r)
            /\ ~ENABLED GetRdLock(r) => \E w \in Writers : InAddCS(w)

\* two lsm_get calls inside their critical sections at once, an lsm_add
\* waiting for both
C17_Witness ==
    \E r \in Readers : \E q \in Readers \ {r} :
        /\ InGetCS(r)
        /\ InGetCS(q)
        /\ rwlock.readers = {r, q}
        /\ \E w \in Writers : thr[w].pc = "add_wrlock"

(***************************************************************************)
(* C18                                                                     *)
(***************************************************************************)
\* value v was passed with this key to an lsm_add of the demonstration that
\* has taken the write lock: the key is some writer's id * 100 + i, v is
\* key * 10
DemoWrittenFor(key, v) ==
    /\ v = DemoValue(key)
    /\ \E w \in Writers : \E i \in 0..(writer_ops - 1) :
          key = DemoWriterKey(Id(w), i) /\ HasLocked(w, i)

\* the same, in the driver that is running
Written(key, v) ==
    IF main.pc = "m_any" THEN WrittenFor(key, v) ELSE DemoWrittenFor(key, v)

\* C18: an lsm_get of a key that some lsm_get had found before this one was
\* called finds the key; and the value an lsm_get returns was passed with its
\* key to an lsm_add that took the write lock before the lsm_get took the
\* read lock (the lsm_get still holds it), in the demonstration key * 10.
C18_MonotoneVisibility ==
    \A r \in Readers :
        thr[r].pc = "get_unlock" =>
            /\ thr[r].snap.seen => GetResult(r) = 1
            /\ GetResult(r) = 1 => Written(thr[r].key, thr[r].value)

\* an lsm_get that finds a key the other reader's lsm_get had found before
\* it was called, writers still at work
C18_Witness ==
    \E r \in Readers : \E q \in Readers \ {r} :
        /\ thr[r].pc = "get_unlock"
        /\ thr[r].snap.seen
        /\ GetResult(r) = 1
        /\ thr[r].i = 0 /\ thr[r].which = 1
        /\ thr[q].which = 2
        /\ thr[r].value = DemoValue(thr[r].key)
        /\ \E w \in Writers : thr[w].pc = "add_wrlock"

(***************************************************************************)
(* C19                                                                     *)
(***************************************************************************)
\* C19: lsm_add holds the write lock when it is about to print and when it
\* has printed "Writer: added key"; by then a call turned away by a full
\* table has written the full-table message and then the added message, any
\* other call the added message alone; the added message is made of the
\* call's key and value only, the same text on every path; and the message
\* has been written when the call returns.
C19_AddedAlways ==
    \A t \in Writers :
        /\ thr[t].pc = "add_print" => HoldsExclusive(t)
        /\ thr[t].pc = "add_unlock" =>
              /\ HoldsExclusive(t)
              /\ LET rejected ==
                         /\ thr[t].updated = 0
                         /\ ~HasRoom(thr[t].pre.memtable_count, memtable_max)
                 IN  thr[t].emitted =
                         IF rejected
                         THEN <<FullMessage(thr[t].key),
                                AddedMessage(thr[t].key, thr[t].value)>>
                         ELSE <<AddedMessage(thr[t].key, thr[t].value)>>
        /\ thr[t].pc = "add_ret" =>
              thr[t].emitted[Len(thr[t].emitted)] = AddedMessage(thr[t].key, thr[t].value)

\* a call turned away by a full table that has printed both messages and
\* still holds the lock
C19_Witness ==
    \E t \in Writers :
        /\ thr[t].pc = "add_unlock"
        /\ HoldsExclusive(t)
        /\ Emitted(t, "full")
        /\ Emitted(t, "added")
        /\ memtable_count = memtable_max
        /\ ~thr[t].taking.had

(***************************************************************************)
(* C20                                                                     *)
(***************************************************************************)
\* C20: until lsm_get finds its key it has not stored to *out_value, which
\* is as the caller passed it; an lsm_get that returns 0 has left it so; an
\* lsm_get that has found its key has stored to it once, holds the read lock
\* and has copied the value of the entry it stopped at; and it returns 1
\* with that one store.
C20_OutValue ==
    \A r \in Readers :
        /\ thr[r].pc \in {"get_rdlock", "get_scan"} =>
              thr[r].stores = 0 /\ thr[r].value = thr[r].out0
        /\ (thr[r].pc \in {"get_unlock", "get_ret"} /\ GetResult(r) = 0) =>
              thr[r].stores = 0 /\ thr[r].value = thr[r].out0
        /\ (thr[r].pc = "get_unlock" /\ GetResult(r) = 1) =>
              /\ thr[r].stores = 1
              /\ HoldsShared(r)
              /\ thr[r].value = memtable[thr[r].idx].value
        /\ (thr[r].pc = "get_ret" /\ GetResult(r) = 1) => thr[r].stores = 1

\* an lsm_get that returns 0 and has left in *out_value what the reader's
\* first lsm_get had stored there
C20_Witness ==
    \E r \in Readers :
        /\ thr[r].pc = "get_ret"
        /\ GetResult(r) = 0
        /\ thr[r].which = 2
        /\ thr[r].out0 # Uninit
        /\ thr[r].value = thr[r].out0

====
